---------------------------- MODULE Spec2Model ----------------------------
(***************************************************************************)
(* Model of the two stateful mechanisms of src/src/App.jsx:                *)
(*   - the Hero typewriter (useState x4 + one useEffect, lines 152-176),   *)
(*   - the useReveal hook (IntersectionObserver, lines 17-29),             *)
(* together with the theme toggle of useTheme (lines 11-14) that           *)
(* re-renders Hero with new props, and the Contact form's local state      *)
(* (lines 544-553).                                                        *)
(*                                                                         *)
(* Strings are sequences of one-character strings.  JavaScript indices are *)
(* kept 0-based (roleIdx, charIdx); roles[roleIdx] is roles[roleIdx + 1]   *)
(* here.  State setters called from one timer callback are committed       *)
(* together in one render (React 18 automatic batching), after which the   *)
(* effect is re-run only when one of its dependencies changed.             *)
(***************************************************************************)
EXTENDS Integers, Sequences, FiniteSets, Bags, TLC

\* ------------------------------------------------------------------ bounds
MaxRoles == 2
MaxRoleLen == 2
MaxPendingResets == 3

\* ------------------------------------------------------- program constants
TypeDelay == 100
DeleteDelay == 60
PauseDelay == 1800
ResetDelay == 4000

VARIABLES
    roles,          \* Hero: the role list (line 154), fixed for a run
    heroMounted,    \* Hero: the component is mounted
    typed,          \* Hero: useState("")     (line 153)
    roleIdx,        \* Hero: useState(0)      (line 155)
    charIdx,        \* Hero: useState(0)      (line 156)
    deleting,       \* Hero: useState(false)  (line 157)
    timers,         \* the host's pending setTimeout callbacks (a bag)
    cleanup,        \* the handle `timeout` held by the last effect's cleanup
    staleSets,      \* a Hero state setter was called after unmount
    fired,          \* timer callbacks run since the current role began
    threw,          \* a timer callback of Hero threw a TypeError
    dark,           \* useTheme: useState(true) (line 12)
    revealMounted,  \* useReveal: the owning component is mounted
    refNull,        \* useReveal: ref.current is null when the effect runs
    visible,        \* useReveal: useState(false) (line 19)
    observed,       \* useReveal: the targets registered with obs
    intersected,    \* an intersecting entry was delivered to the callback
    revealStale,    \* setVisible was called after unmount
    contactMounted, \* Contact: the component is mounted
    form,           \* Contact: useState({name, email, message}) (line 545)
    sent,           \* Contact: useState(false) (line 546)
    resetTimers     \* Contact: the pending callbacks of line 552 (a bag)

heroVars == <<roles, heroMounted, typed, roleIdx, charIdx, deleting, timers,
              cleanup, staleSets, fired, threw>>
revealVars == <<revealMounted, refNull, visible, observed, intersected,
                revealStale>>
contactVars == <<contactMounted, form, sent, resetTimers>>
vars == <<roles, heroMounted, typed, roleIdx, charIdx, deleting, timers,
          cleanup, staleSets, fired, threw, dark, revealMounted, refNull, visible,
          observed, intersected, revealStale, contactMounted, form, sent,
          resetTimers>>

\* ------------------------------------------------------------- role lists
\* The list the program ships with (line 154).
ActualRoles ==
    << <<"B","u","s","i","n","e","s","s"," ","A","n","a","l","y","s","t">>,
       <<"D","a","t","a"," ","A","n","a","l","y","s","t">>,
       <<"A","n","a","l","y","t","i","c","s"," ","C","o","n","s","u","l","t","a","n","t">> >>

Alphabet == <<"A", "B", "C", "D", "E", "F">>

\* The i-th role of a generated list: n copies of the i-th letter.
Role(i, n) == [j \in 1..n |-> Alphabet[((i - 1) % Len(Alphabet)) + 1]]

\* Generated lists: 1..MaxRoles roles, each of length 0..MaxRoleLen
\* (so <<"">>, <<"A">> and <<"A","BB">> are among them).
GeneratedRoleLists ==
    UNION { { [i \in 1..k |-> Role(i, lens[i])] : lens \in [1..k -> 0..MaxRoleLen] }
            : k \in 1..MaxRoles }

RoleLists == GeneratedRoleLists \cup {ActualRoles}

\* --------------------------------------------------------- pure functions
Min(a, b) == IF a < b THEN a ELSE b
Max(a, b) == IF a > b THEN a ELSE b

\* String.prototype.slice(start, end): negative indices count from the end,
\* both are clamped to [0, length], and an empty range gives "".
Slice(s, start, end) ==
    LET len == Len(s)
        from == IF start < 0 THEN Max(len + start, 0) ELSE Min(start, len)
        to == IF end < 0 THEN Max(len + end, 0) ELSE Min(end, len)
    IN  SubSeq(s, from + 1, to)

\* roles[roleIdx] with the 0-based index of the source.
RoleAt(r) == roles[r + 1]

\* roles[r] is not undefined.
HasRole(r) == (r + 1) \in DOMAIN roles

\* ------------------------------------------------------------- the timers
\* The two delays of line 174 exchanged.
TickDelaySwapped(d) == IF d THEN TypeDelay ELSE DeleteDelay

\* Line 174: the delay of the tick.
TickDelay(d) == IF d THEN DeleteDelay ELSE TypeDelay

\* The callback scheduled by the effect (lines 161-174): its closure holds
\* the render's roleIdx (through `current`), charIdx and deleting.
TickTimer(r, c, d) ==
    [kind |-> "tick", delay |-> TickDelay(d),
     roleIdx |-> r, charIdx |-> c, deleting |-> d]

\* The pause scheduled with the typing delay.
PauseTimerShort(t) == [t EXCEPT !.kind = "pause", !.delay = TypeDelay]

\* The callback scheduled inside the tick callback (line 166); its handle
\* is dropped.
PauseTimer(t) == [t EXCEPT !.kind = "pause", !.delay = PauseDelay]

\* A teardown that cancels every pending timer, whatever the handle.
ClearTimeoutAll(bag, h) ==
    IF h = <<>> THEN bag ELSE EmptyBag

\* clearTimeout(h): removes the timer if it is still pending, else nothing.
ClearTimeout(bag, h) ==
    IF h = <<>> THEN bag ELSE bag (-) SetToBag({h[1]})

\* One run of the effect after a commit whose dependencies changed: the
\* previous cleanup (line 175), then the effect body (lines 160-174).
RunEffect(bag, h, r, c, d) ==
    ClearTimeout(bag, h) (+) SetToBag({TickTimer(r, c, d)})

TickTimers == {t \in BagToSet(timers) : t.kind = "tick"}
PauseTimers == {t \in BagToSet(timers) : t.kind = "pause"}
Pending == BagCardinality(timers)

\* A guard for the empty role that sends it to the last branch.
BranchSkipEmpty(t) ==
    LET current == RoleAt(t.roleIdx) IN
    IF ~t.deleting /\ ~HasRole(t.roleIdx) THEN "throw"
    ELSE IF ~t.deleting /\ t.charIdx < Len(current) THEN "type"
    ELSE IF ~t.deleting /\ t.charIdx = Len(current) /\ t.charIdx > 0 THEN "pauseFull"
    ELSE IF t.deleting /\ t.charIdx > 0 THEN "delete"
    ELSE "pauseEmpty"

\* Line 165 without its !deleting test.
BranchFullNoFlag(t) ==
    LET current == RoleAt(t.roleIdx) IN
    IF ~t.deleting /\ ~HasRole(t.roleIdx) THEN "throw"
    ELSE IF ~t.deleting /\ t.charIdx < Len(current) THEN "type"
    ELSE IF t.charIdx = Len(current) THEN "pauseFull"
    ELSE IF t.deleting /\ t.charIdx > 0 THEN "delete"
    ELSE "pauseEmpty"

\* `charIdx <= current.length` in place of the test of line 162.
BranchOvershoot(t) ==
    LET current == RoleAt(t.roleIdx) IN
    IF ~t.deleting /\ ~HasRole(t.roleIdx) THEN "throw"
    ELSE IF ~t.deleting /\ t.charIdx <= Len(current) THEN "type"
    ELSE IF ~t.deleting /\ t.charIdx = Len(current) THEN "pauseFull"
    ELSE IF t.deleting /\ t.charIdx > 0 THEN "delete"
    ELSE "pauseEmpty"

\* Which branch of the callback (lines 162-173) the closure t takes; with
\* `current` undefined the first test evaluates current.length and throws.
Branch(t) ==
    LET current == RoleAt(t.roleIdx) IN
    IF ~t.deleting /\ ~HasRole(t.roleIdx) THEN "throw"
    ELSE IF ~t.deleting /\ t.charIdx < Len(current) THEN "type"
    ELSE IF ~t.deleting /\ t.charIdx = Len(current) THEN "pauseFull"
    ELSE IF t.deleting /\ t.charIdx > 0 THEN "delete"
    ELSE "pauseEmpty"

\* current.slice(0, charIdx) in place of line 163.
TypedTextStale(t) == Slice(RoleAt(t.roleIdx), 0, t.charIdx)

\* Line 163: the argument of setTyped when typing.
TypedText(t) == Slice(RoleAt(t.roleIdx), 0, t.charIdx + 1)

\* current.slice(0, charIdx) in place of line 168.
DeletedTextStale(t) == Slice(RoleAt(t.roleIdx), 0, t.charIdx)

\* Line 168: the argument of setTyped when deleting.
DeletedText(t) == Slice(RoleAt(t.roleIdx), 0, t.charIdx - 1)

\* (i + 2) % roles.length in place of line 172.
NextRoleSkip(i) == (i + 2) % Len(roles)

\* An updater that keeps the index.
NextRoleStay(i) == i % Len(roles)

\* Line 172: the updater of setRoleIdx.
NextRole(i) == (i + 1) % Len(roles)

\* An effect without a dependency array: it re-runs after every render.
DepsAlways(r, c, d) == TRUE

\* A dependency array without `deleting`.
DepsWithoutDeleting(r, c, d) == <<c, r>> # <<charIdx, roleIdx>>

\* Line 176: the effect re-runs iff one of [charIdx, deleting, roleIdx]
\* differs from the previous render's.
DepsChanged(r, c, d) == <<c, d, r>> # <<charIdx, deleting, roleIdx>>

\* ------------------------------------------------------------ the observer
Target == "div"

\* obs.observe(el)
Observe(o, el) == o \cup {el}

\* obs.disconnect(): no target stays registered.
Disconnect(o) == {}

\* A callback that mirrors isIntersecting and keeps observing.
OnEntriesTrack(isIntersecting, v, o) ==
    [visible |-> isIntersecting, set |-> TRUE, observed |-> o]

\* A callback without the isIntersecting test.
OnEntriesNoTest(isIntersecting, v, o) ==
    [visible |-> TRUE, set |-> TRUE, observed |-> Disconnect(o)]

\* A callback that sets visible but never disconnects.
OnEntriesKeep(isIntersecting, v, o) ==
    IF isIntersecting
      THEN [visible |-> TRUE, set |-> TRUE, observed |-> o]
      ELSE [visible |-> v, set |-> FALSE, observed |-> o]

\* Line 22: the observer's callback on the first entry e: the value of
\* `visible` after it, whether setVisible was called, and obs's targets.
OnEntries(isIntersecting, v, o) ==
    IF isIntersecting
      THEN [visible |-> TRUE, set |-> TRUE, observed |-> Disconnect(o)]
      ELSE [visible |-> v, set |-> FALSE, observed |-> o]

\* A cleanup that leaves the observer connected.
RevealCleanupLeak(o) == o

\* Line 26: the effect's cleanup.
RevealCleanup(o) == Disconnect(o)

\* ------------------------------------------------------- the contact form
Fields == {"name", "email", "message"}

\* What the user can have typed into a field: nothing, or a text the
\* browser accepts for that field.
FieldValues == {"", "x"}

\* Lines 545 and 551: the empty form.
EmptyForm == [f \in Fields |-> ""]

\* The three inputs are `required` (lines 602, 609, 617): the browser fires
\* onSubmit only when none is empty.
Valid(fm) == \A f \in Fields : fm[f] # ""

\* Line 552: the callback that resets `sent`.
ResetTimer == [kind |-> "reset", delay |-> ResetDelay]

\* A reset callback that flips `sent`.
SentAfterResetFlipped(v) == ~v

\* Line 552: the value the reset callback gives `sent`.
SentAfterReset(v) == FALSE

\* ------------------------------------------------------------------- Init
\* The state after the first render and the first run of the effects.
Init ==
    /\ roles \in RoleLists
    /\ threw = FALSE
    /\ heroMounted = TRUE
    /\ typed = <<>>
    /\ roleIdx = 0
    /\ charIdx = 0
    /\ deleting = FALSE
    /\ timers = SetToBag({TickTimer(0, 0, FALSE)})
    /\ cleanup = <<TickTimer(0, 0, FALSE)>>
    /\ staleSets = FALSE
    /\ fired = 0
    /\ dark = TRUE
    /\ revealMounted = TRUE
    /\ refNull \in BOOLEAN
    /\ visible = FALSE
    /\ observed = IF refNull THEN {} ELSE Observe({}, Target)
    /\ intersected = FALSE
    /\ revealStale = FALSE
    /\ contactMounted = TRUE
    /\ form = EmptyForm
    /\ sent = FALSE
    /\ resetTimers = EmptyBag

\* ----------------------------------------------------------- Hero actions
\* The commit of a batch of Hero state updates: the new state is rendered
\* and the effect re-runs iff [charIdx, deleting, roleIdx] changed (line 176).
HeroCommit(bag, r, c, d) ==
    /\ roleIdx' = r
    /\ charIdx' = c
    /\ deleting' = d
    /\ IF DepsChanged(r, c, d)
         THEN /\ timers' = RunEffect(bag, cleanup, r, c, d)
              /\ cleanup' = <<TickTimer(r, c, d)>>
         ELSE /\ timers' = bag
              /\ cleanup' = cleanup

\* Setters called on an unmounted component change nothing.
HeroIgnored(bag) ==
    /\ timers' = bag
    /\ staleSets' = TRUE
    /\ UNCHANGED <<typed, roleIdx, charIdx, deleting, cleanup>>

\* Lines 162-164: type one more character.
TypeTick ==
    \E t \in TickTimers :
        /\ Branch(t) = "type"
        /\ fired' = fired + 1
        /\ IF heroMounted
             THEN /\ typed' = TypedText(t)
                  /\ HeroCommit(timers (-) SetToBag({t}), roleIdx, charIdx + 1, deleting)
                  /\ UNCHANGED staleSets
             ELSE HeroIgnored(timers (-) SetToBag({t}))
        /\ UNCHANGED <<roles, heroMounted, threw, dark, revealVars, contactVars>>

\* Lines 165-166: the role is fully typed; start the 1800ms delay.
PauseFullTick ==
    \E t \in TickTimers :
        /\ Branch(t) = "pauseFull"
        /\ fired' = fired + 1
        /\ timers' = (timers (-) SetToBag({t})) (+) SetToBag({PauseTimer(t)})
        /\ UNCHANGED <<roles, heroMounted, typed, roleIdx, charIdx, deleting,
                       cleanup, staleSets, threw, dark, revealVars, contactVars>>

\* Line 166: the delay elapsed, setDeleting(true).
PauseFire ==
    \E t \in PauseTimers :
        /\ fired' = fired + 1
        /\ IF heroMounted
             THEN /\ typed' = typed
                  /\ HeroCommit(timers (-) SetToBag({t}), roleIdx, charIdx, TRUE)
                  /\ UNCHANGED staleSets
             ELSE HeroIgnored(timers (-) SetToBag({t}))
        /\ UNCHANGED <<roles, heroMounted, threw, dark, revealVars, contactVars>>

\* Lines 167-169: delete one character.
DeleteTick ==
    \E t \in TickTimers :
        /\ Branch(t) = "delete"
        /\ fired' = fired + 1
        /\ IF heroMounted
             THEN /\ typed' = DeletedText(t)
                  /\ HeroCommit(timers (-) SetToBag({t}), roleIdx, charIdx - 1, deleting)
                  /\ UNCHANGED staleSets
             ELSE HeroIgnored(timers (-) SetToBag({t}))
        /\ UNCHANGED <<roles, heroMounted, threw, dark, revealVars, contactVars>>

\* Lines 170-173: the text is empty; go on to the next role.
PauseEmptyTick ==
    \E t \in TickTimers :
        /\ Branch(t) = "pauseEmpty"
        /\ IF heroMounted
             THEN /\ typed' = typed
                  /\ fired' = 0
                  /\ HeroCommit(timers (-) SetToBag({t}),
                                NextRole(roleIdx), charIdx, FALSE)
                  /\ UNCHANGED staleSets
             ELSE /\ fired' = fired + 1
                  /\ HeroIgnored(timers (-) SetToBag({t}))
        /\ UNCHANGED <<roles, heroMounted, threw, dark, revealVars, contactVars>>

\* Unmount of Hero: the last effect's cleanup runs (line 175).
HeroUnmount ==
    /\ heroMounted
    /\ heroMounted' = FALSE
    /\ timers' = ClearTimeout(timers, cleanup)
    /\ cleanup' = <<>>
    /\ UNCHANGED <<roles, typed, roleIdx, charIdx, deleting, staleSets, fired,
                   threw, dark, revealVars, contactVars>>

\* useTheme.toggle (line 13): App re-renders Hero with new props; none of
\* the effect's dependencies changes, so the effect does not re-run.
ToggleTheme ==
    /\ heroMounted
    /\ dark' = ~dark
    /\ typed' = typed
    /\ HeroCommit(timers, roleIdx, charIdx, deleting)
    /\ UNCHANGED <<roles, heroMounted, staleSets, fired, threw, revealVars, contactVars>>

\* --------------------------------------------------------- Reveal actions
\* The observer's callback (line 22), delivered by the host for a
\* registered target with either value of isIntersecting.
IntersectionCallback ==
    \E isIntersecting \in BOOLEAN :
        /\ observed # {}
        /\ LET after == OnEntries(isIntersecting, visible, observed) IN
             /\ visible' = IF revealMounted THEN after.visible ELSE visible
             /\ revealStale' = (revealStale \/ (~revealMounted /\ after.set))
             /\ observed' = after.observed
        /\ intersected' = (intersected \/ isIntersecting)
        /\ UNCHANGED <<heroVars, contactVars, dark, revealMounted, refNull>>

\* Unmount of the component that uses useReveal: the cleanup (line 26).
RevealUnmount ==
    /\ revealMounted
    /\ revealMounted' = FALSE
    /\ observed' = RevealCleanup(observed)
    /\ UNCHANGED <<heroVars, contactVars, dark, refNull, visible, intersected, revealStale>>

\* ------------------------------------------------------------------- Spec
Next ==
    \/ TypeTick
    \/ PauseFullTick
    \/ PauseFire
    \/ DeleteTick
    \/ PauseEmptyTick
    \/ HeroUnmount
    \/ ToggleTheme
    \/ IntersectionCallback
    \/ RevealUnmount

Spec == Init /\ [][Next]_vars

\* The host fires every pending timer eventually.
HeroTimerFires == TypeTick \/ PauseFullTick \/ PauseFire \/ DeleteTick \/ PauseEmptyTick

LiveSpec == Spec /\ WF_vars(HeroTimerFires)

\* -------------------------------------------------------- Contact actions
\* Lines 603, 610, 618: onChange of one input.
ChangeField ==
    \E f \in Fields, v \in FieldValues :
        /\ contactMounted
        /\ form' = [form EXCEPT ![f] = v]
        /\ UNCHANGED <<heroVars, dark, revealVars, contactMounted, sent, resetTimers>>

\* Lines 548-553: handleSubmit.  Nothing cancels the timers of earlier
\* submits.
Submit ==
    /\ contactMounted
    /\ Valid(form)
    /\ BagCardinality(resetTimers) < MaxPendingResets
    /\ sent' = TRUE
    /\ form' = EmptyForm
    /\ resetTimers' = resetTimers (+) SetToBag({ResetTimer})
    /\ UNCHANGED <<heroVars, dark, revealVars, contactMounted>>

\* Line 552: a reset callback fires; on an unmounted component the setter
\* changes nothing.
ResetFire ==
    \E t \in BagToSet(resetTimers) :
        /\ resetTimers' = resetTimers (-) SetToBag({t})
        /\ sent' = IF contactMounted THEN SentAfterReset(sent) ELSE sent
        /\ UNCHANGED <<heroVars, dark, revealVars, contactMounted, form>>

\* Unmount of Contact: it has no effect and no cleanup, so its timers stay.
ContactUnmount ==
    /\ contactMounted
    /\ contactMounted' = FALSE
    /\ UNCHANGED <<heroVars, dark, revealVars, form, sent, resetTimers>>

\* The Contact form beside a freshly mounted page with the shipped roles.
InitContact ==
    /\ Init
    /\ roles = ActualRoles
    /\ refNull = FALSE

NextContact ==
    \/ ChangeField
    \/ Submit
    \/ ResetFire
    \/ ContactUnmount

SpecContact == InitContact /\ [][NextContact]_vars

\* The host fires every pending reset timer eventually.
LiveSpecContact == SpecContact /\ WF_vars(ResetFire)

\* ------------------------------------------------- any role list at all
\* Line 162 with roles = []: `current` is undefined, !deleting holds and
\* charIdx < current.length throws inside the timer callback; no setter is
\* called, so nothing re-renders and no effect schedules another timer.
ThrowTick ==
    \E t \in TickTimers :
        /\ Branch(t) = "throw"
        /\ threw' = TRUE
        /\ fired' = fired + 1
        /\ timers' = timers (-) SetToBag({t})
        /\ UNCHANGED <<roles, heroMounted, typed, roleIdx, charIdx, deleting,
                       cleanup, staleSets, dark, revealVars, contactVars>>

\* Hero mounted with any role list, the empty one included: the render and
\* the effect body (lines 153-160, 174) read no property of `current`.
InitAny ==
    /\ roles \in RoleLists \cup {<<>>}
    /\ threw = FALSE
    /\ heroMounted = TRUE
    /\ typed = <<>>
    /\ roleIdx = 0
    /\ charIdx = 0
    /\ deleting = FALSE
    /\ timers = SetToBag({TickTimer(0, 0, FALSE)})
    /\ cleanup = <<TickTimer(0, 0, FALSE)>>
    /\ staleSets = FALSE
    /\ fired = 0
    /\ dark = TRUE
    /\ revealMounted = TRUE
    /\ refNull \in BOOLEAN
    /\ visible = FALSE
    /\ observed = IF refNull THEN {} ELSE Observe({}, Target)
    /\ intersected = FALSE
    /\ revealStale = FALSE
    /\ contactMounted = TRUE
    /\ form = EmptyForm
    /\ sent = FALSE
    /\ resetTimers = EmptyBag

NextAny == Next \/ ThrowTick

SpecAny == InitAny /\ [][NextAny]_vars

\* --------------------------------------------------------------- typing
TypeOK ==
    /\ roles \in RoleLists
    /\ heroMounted \in BOOLEAN
    /\ threw = FALSE
    /\ roleIdx \in 0..(Len(roles) - 1)
    /\ charIdx \in Nat
    /\ deleting \in BOOLEAN
    /\ cleanup \in Seq(BagToSet(timers) \cup {TickTimer(roleIdx, charIdx, deleting)})
    /\ Len(cleanup) <= 1
    /\ dark \in BOOLEAN
    /\ visible \in BOOLEAN
    /\ observed \subseteq {Target}
    /\ contactVars = <<TRUE, EmptyForm, FALSE, EmptyBag>>

\* ================================================================= claims
\* The role indices of every list of RoleLists.
RoleIndices == 0..(Max(MaxRoles, Len(ActualRoles)) - 1)

Current == RoleAt(roleIdx)

\* C1: in every reachable state the displayed text `typed` is exactly the
\* first charIdx characters of roles[roleIdx].
C1_TypedIsPrefix ==
    /\ charIdx <= Len(Current)
    /\ Len(typed) = charIdx
    /\ \A j \in 1..charIdx : typed[j] = Current[j]

\* A second role of two characters, half deleted.
C1_Witness ==
    /\ roleIdx = 1
    /\ Len(Current) = 2
    /\ charIdx = 1
    /\ deleting
    /\ typed = <<Current[1]>>

\* C2: after Hero is unmounted no timer is pending and no timer callback
\* calls a state setter.
C2_NoTimerAfterUnmount ==
    ~heroMounted => (timers = EmptyBag /\ ~staleSets)

\* C3: `visible` never changes from true to false (so it changes from
\* false to true at most once).
C3_VisibleOneWay == [][visible => visible']_vars

\* The region was revealed and the component is still mounted.
C3_Witness == visible /\ revealMounted /\ intersected

\* C4: roleIdx changes only in the step that ends a full cycle of the
\* current role (length typing ticks, the full tick, the pause, length
\* deleting ticks), and that step takes (i, 0, true) to
\* ((i + 1) mod roles.length, 0, false).
C4_CycleStep ==
    [][ (roleIdx' # roleIdx \/ (deleting /\ ~deleting') \/ (fired # 0 /\ fired' = 0))
            => /\ fired = 2 * Len(Current) + 2
               /\ deleting /\ charIdx = 0
               /\ roleIdx' = (roleIdx + 1) % Len(roles)
               /\ charIdx' = 0
               /\ ~deleting'
               /\ fired' = 0 ]_vars

\* The last role of a list of two, typed and deleted, about to be left.
C4_Witness ==
    /\ heroMounted
    /\ Len(roles) = 2
    /\ Len(roles[2]) = 2
    /\ roleIdx = 1
    /\ deleting
    /\ charIdx = 0
    /\ fired = 6

\* C5: while Hero stays mounted, every role is fully typed again and again
\* and the deleting phase is entered again and again.
C5_CyclesForever ==
    /\ \A i \in RoleIndices :
          []<>(\/ ~heroMounted
               \/ i >= Len(roles)
               \/ (roleIdx = i /\ ~deleting /\ typed = RoleAt(i)))
    /\ []<>(~heroMounted \/ (deleting /\ typed = Current))
    /\ []<>(~heroMounted \/ (deleting /\ charIdx = 0))

\* The last role of the shipped list is fully typed and being deleted.
C5_Witness ==
    /\ roles = ActualRoles
    /\ heroMounted
    /\ roleIdx = 2
    /\ deleting
    /\ typed = ActualRoles[3]

\* C6: `visible` is true only if an intersecting entry was delivered to
\* the callback; with a null ref it is never true.
C6_HiddenUntilIntersecting ==
    /\ visible => intersected
    /\ refNull => ~visible

\* A non-intersecting-only history ended by unmount: still hidden.
C6_Witness ==
    /\ ~refNull
    /\ ~revealMounted
    /\ ~intersected
    /\ ~visible

\* C7: after unmount no target is registered with the observer and
\* setVisible was not called after unmount.
C7_ObserverReleased ==
    ~revealMounted => (observed = {} /\ ~revealStale)

\* Unmounted while still observing a region that never intersected.
C7_Witness ==
    /\ ~revealMounted
    /\ ~refNull
    /\ ~visible
    /\ ~intersected
    /\ observed = {}
    /\ ~heroMounted

\* C8: on an empty role every scheduled timer has a positive delay, at
\* most two callbacks run before the step to the next role, and (while
\* mounted) the deleting flag is set and then the role is left.
C8_EmptyRoleProgress ==
    /\ [](\A t \in BagToSet(timers) : t.delay > 0)
    /\ [](Len(Current) = 0 => fired <= 2)
    /\ [](Len(Current) = 0 /\ heroMounted => Pending = 1)
    /\ ((heroMounted /\ Len(Current) = 0 /\ ~deleting)
            ~> (~heroMounted \/ deleting))
    /\ \A i \in RoleIndices :
          ((heroMounted /\ roleIdx = i /\ Len(Current) = 0 /\ deleting)
            ~> (~heroMounted \/ (roleIdx = (i + 1) % Len(roles) /\ ~deleting)))

\* The empty role after its pause: deleting, with the 60ms tick pending.
C8_Witness ==
    /\ roles = << <<>> >>
    /\ heroMounted
    /\ deleting
    /\ fired = 2
    /\ timers = SetToBag({TickTimer(0, 0, TRUE)})

\* C9: at most one typewriter timer is pending, and while mounted its
\* closure holds the current state.
C9_OneTimer ==
    /\ Pending <= 1
    /\ heroMounted =>
          /\ Pending = 1
          /\ \A t \in BagToSet(timers) :
                /\ t.roleIdx = roleIdx
                /\ t.charIdx = charIdx
                /\ t.deleting = deleting

\* The 1800ms delay is the one pending timer, after a theme toggle.
C9_Witness ==
    /\ heroMounted
    /\ PauseTimers # {}
    /\ TickTimers = {}
    /\ ~dark
    /\ charIdx = 2

\* C10: the text grows by one character per typing tick, shrinks by one
\* per deleting tick, deletion starts only on the full role and the role
\* is left only on the empty text.
C10_StrictOrder ==
    [][ /\ typed' # typed =>
            \/ /\ ~deleting /\ ~deleting' /\ roleIdx' = roleIdx
               /\ charIdx' = charIdx + 1
               /\ typed' = SubSeq(Current, 1, Len(typed) + 1)
            \/ /\ deleting /\ deleting' /\ roleIdx' = roleIdx
               /\ charIdx' = charIdx - 1
               /\ Len(typed) > 0
               /\ typed' = SubSeq(Current, 1, Len(typed) - 1)
        /\ charIdx' # charIdx => typed' # typed
        /\ (~deleting /\ deleting') => (typed = Current /\ typed' = typed)
        /\ (deleting /\ ~deleting') =>
              (typed = <<>> /\ typed' = <<>> /\ charIdx' = 0)
        /\ roleIdx' # roleIdx => (deleting /\ ~deleting') ]_vars

\* roles <<"A","BB">> showing "BB".
C10_Witness ==
    /\ roles = <<Role(1, 1), Role(2, 2)>>
    /\ roleIdx = 1
    /\ typed = <<"B", "B">>
    /\ ~deleting
    /\ PauseTimers # {}

\* C11: the step that delivers the first intersecting entry sets visible
\* and leaves no target registered; from then on no callback can be
\* delivered and visible does not change.
C11_RevealOnce ==
    [][ /\ (~intersected /\ intersected') => (visible' /\ observed' = {})
        /\ intersected => (visible' = visible /\ observed' = {} /\ intersected') ]_vars

\* Revealed on a non-null ref, observer disconnected, still mounted.
C11_Witness ==
    /\ ~refNull
    /\ revealMounted
    /\ intersected
    /\ visible
    /\ observed = {}

SingleRole == Len(roles) = 1 /\ Len(roles[1]) > 0

\* C13: with one non-empty role the step out of PausedEmpty leaves
\* roleIdx at 0 and schedules the next typing tick, and while mounted the
\* role is fully typed and fully deleted again and again.
C13_SingleRoleCycles ==
    /\ [][ (SingleRole /\ heroMounted /\ deleting /\ ~deleting')
              => /\ roleIdx = 0 /\ roleIdx' = 0
                 /\ typed' = <<>>
                 /\ timers' = SetToBag({TickTimer(0, 0, FALSE)}) ]_vars
    /\ []<>(~heroMounted \/ ~SingleRole \/ (~deleting /\ typed = roles[1]))
    /\ []<>(~heroMounted \/ ~SingleRole \/ (~deleting /\ typed = <<>>))

\* The single role "AA" deleted to the empty text, about to be retyped.
C13_Witness ==
    /\ roles = <<Role(1, 2)>>
    /\ heroMounted
    /\ deleting
    /\ typed = <<>>
    /\ TickTimers # {}

\* C14: 0 <= charIdx <= roles[roleIdx].length and 0 <= roleIdx < roles.length.
C14_IndexRanges ==
    /\ 0 <= roleIdx /\ roleIdx < Len(roles)
    /\ 0 <= charIdx /\ charIdx <= Len(roles[roleIdx + 1])

\* Right after roleIdx advanced from a role of two characters to a shorter one.
C14_Witness ==
    /\ roles = <<Role(1, 2), Role(2, 1)>>
    /\ roleIdx = 1
    /\ charIdx = 0
    /\ ~deleting
    /\ fired = 0
    /\ heroMounted

\* The typewriter state the user sees and the effect depends on.
HeroState == <<roleIdx, charIdx, deleting, typed>>

\* The one successor of the typewriter state (r, c, d) over the list roles.
HeroStep(r, c, d) ==
    LET role == roles[r + 1] IN
    IF ~d /\ c < Len(role) THEN <<r, c + 1, FALSE, SubSeq(role, 1, c + 1)>>
    ELSE IF ~d THEN <<r, c, TRUE, SubSeq(role, 1, c)>>
    ELSE IF c > 0 THEN <<r, c - 1, TRUE, SubSeq(role, 1, c - 1)>>
    ELSE <<(r + 1) % Len(roles), 0, FALSE, <<>> >>

\* C15: every change of (roleIdx, charIdx, deleting, typed) is the one
\* successor determined by the state and the role list, and a theme toggle
\* or an observer/unmount step of useReveal changes neither that state nor
\* the pending timers.
C15_Deterministic ==
    [][ /\ HeroState' # HeroState => HeroState' = HeroStep(roleIdx, charIdx, deleting)
        /\ (dark' # dark \/ revealVars' # revealVars)
              => UNCHANGED <<HeroState, timers, cleanup, fired>> ]_vars

\* The theme was toggled and the region revealed while the second role
\* was being deleted.
C15_Witness ==
    /\ heroMounted
    /\ ~dark
    /\ visible
    /\ roleIdx = 1
    /\ deleting
    /\ charIdx = 1

C17_ImmediateOnEntry ==
    ~(heroMounted /\ deleting /\ charIdx = 0 /\ \E t \in BagToSet(timers) : t.delay > 0)

\* C17 amended: PausedEmpty is entered with the empty text and one 60ms
\* tick pending; when that tick fires, deleting becomes false and roleIdx
\* becomes (roleIdx + 1) mod roles.length in one commit, charIdx stays 0,
\* the text stays empty and the next typing tick is scheduled.
C17_PausedEmptyTick ==
    /\ [](heroMounted /\ deleting /\ charIdx = 0
            => /\ typed = <<>>
               /\ Pending = 1
               /\ \A t \in BagToSet(timers) : t.kind = "tick" /\ t.delay = 60)
    /\ [][ (heroMounted /\ heroMounted' /\ deleting /\ charIdx = 0 /\ timers' # timers)
              => /\ ~deleting'
                 /\ roleIdx' = (roleIdx + 1) % Len(roles)
                 /\ charIdx' = 0
                 /\ typed' = <<>>
                 /\ \A t \in BagToSet(timers') :
                       t.kind = "tick" /\ t.roleIdx = roleIdx' /\ t.charIdx = 0
                       /\ ~t.deleting ]_vars

\* The last role of the shipped list deleted to the empty text.
C17_Witness ==
    /\ roles = ActualRoles
    /\ heroMounted
    /\ roleIdx = 2
    /\ deleting
    /\ charIdx = 0

C19_TickDelays ==
    /\ [](\A t \in TickTimers : t.delay = IF t.deleting THEN 60 ELSE 100)
    /\ [][ charIdx' = charIdx + 1
              => \A t \in BagToSet(timers) :
                    t.kind = "tick" /\ t.delay = 100 /\ t.deleting = deleting ]_vars
    /\ [][ charIdx' = charIdx - 1
              => \A t \in BagToSet(timers) :
                    t.kind = "tick" /\ t.delay = 60 /\ t.deleting = deleting ]_vars

\* A deleting tick of 60ms pending on a role of two characters.
C19_Witness ==
    /\ heroMounted
    /\ \E t \in TickTimers : t.deleting /\ t.charIdx = 2 /\ t.delay = 60

\* C20: a pause callback of a mounted Hero fires only in PausedFull, as
\* the callback right after the one that scheduled it, and sets deleting.
C20_PauseFiresInPausedFull ==
    [][ (heroMounted /\ PauseTimers # {} /\ PauseTimers' = {})
            => /\ ~deleting
               /\ charIdx = Len(Current)
               /\ fired = Len(Current) + 1
               /\ deleting' ]_vars

\* Just after the pause fired on a first role of two characters.
C20_Witness ==
    /\ heroMounted
    /\ roleIdx = 0
    /\ Len(Current) = 2
    /\ deleting
    /\ charIdx = 2
    /\ fired = 4

\* C21: every submit clears the three fields, sets sent and schedules a
\* 4000ms reset; while Contact is mounted sent implies a pending reset
\* timer; sent becomes true only by a submit; and under fair timer firing a
\* mounted Contact with sent true eventually has sent false.
C21_SentResets ==
    /\ [][ BagCardinality(resetTimers') > BagCardinality(resetTimers)
              => /\ Valid(form)
                 /\ sent'
                 /\ form' = [f \in Fields |-> ""]
                 /\ BagCardinality(resetTimers') = BagCardinality(resetTimers) + 1 ]_vars
    /\ [](\A t \in BagToSet(resetTimers) : t.delay = 4000)
    /\ []((contactMounted /\ sent) => BagCardinality(resetTimers) >= 1)
    /\ [][ (~sent /\ sent')
              => BagCardinality(resetTimers') = BagCardinality(resetTimers) + 1 ]_vars
    /\ ((contactMounted /\ sent) ~> (~contactMounted \/ ~sent))

\* A second submit made while sent was still true: two resets pending.
C21_Witness ==
    /\ contactMounted
    /\ sent
    /\ BagCardinality(resetTimers) = 2
    /\ form = [f \in Fields |-> ""]

=============================================================================
